---- MODULE Spec2Model ----
(***************************************************************************)
(* A model of the agents-starter chat agent: the R2-backed media           *)
(* normalizers (vision.ts describeImageParts, audio.ts                     *)
(* transcribeAudioParts), the file routes of ChatAgent.onRequest, and the  *)
(* tool definitions of tools.ts driven through the tool-call state         *)
(* machine.                                                                *)
(*                                                                         *)
(* Strings of the program are TLA+ strings; startsWith and slice are       *)
(* computed character by character with SubSeq.                            *)
(***************************************************************************)
EXTENDS Integers, Sequences, FiniteSets, TLC

\* ------------------------------------------------------------------------
\* Bounds of the model
\* ------------------------------------------------------------------------

\* number of per-part normalization tasks that can exist in one behaviour
MaxTasks == 2
\* number of parts of one user message
MaxParts == 2

\* ------------------------------------------------------------------------
\* String helpers (String.prototype.startsWith / slice)
\* ------------------------------------------------------------------------

StartsWith(s, p) == Len(s) >= Len(p) /\ SubSeq(s, 1, Len(p)) = p

SliceFrom(s, n) == SubSeq(s, n + 1, Len(s))

\* the data field of a file part: a string, or a value that is not one
Str(s) == [isString |-> TRUE, val |-> s]
NotAString == [isString |-> FALSE, val |-> ""]

\* ------------------------------------------------------------------------
\* Conversations, keys, objects
\* ------------------------------------------------------------------------

\* names of the agent instances (this.name), one per conversation; they
\* share one bucket
Convs == {"c1", "c2"}

\* the agent instance whose requests and turns are followed; the other
\* conversation is present through the object it has in the bucket
Served == {"c1"}

\* a prefix that every conversation shares
PrefixAll(name) == "uploads/"

\* `uploads/${this.name}/`
Prefix(name) == "uploads/" \o name \o "/"

\* Date.now() values and crypto.randomUUID().slice(0, 8) values of uploads
Millis == {"1"}
Rand8 == {"aaaaaaaa", "bbbbbbbb"}

\* file names offered to upload
FileNames == {"a.png", "x y.html", "n.bin"}

\* texts a model adapter can return (generateText().text, transcribe().text)
Texts == {"", "cat", "dog"}

\* ------------------------------------------------------------------------
\* sanitizeFilename (server.ts)
\* ------------------------------------------------------------------------

MaxNameLen == 200

SafeChars ==
  { "a","b","c","d","e","f","g","h","i","j","k","l","m",
    "n","o","p","q","r","s","t","u","v","w","x","y","z",
    "A","B","C","D","E","F","G","H","I","J","K","L","M",
    "N","O","P","Q","R","S","T","U","V","W","X","Y","Z",
    "0","1","2","3","4","5","6","7","8","9",".","_","-" }

CharAt(s, i) == SubSeq(s, i, i)

\* the pieces ps[lo], ..., ps[hi] joined into one string
RECURSIVE Concat(_, _, _)
Concat(ps, lo, hi) ==
  IF lo > hi THEN ""
  ELSE IF lo = hi THEN ps[lo]
  ELSE LET mid == (lo + hi) \div 2
       IN  Concat(ps, lo, mid) \o Concat(ps, mid + 1, hi)

\* name.replace(/[^a-zA-Z0-9._-]/g, "_")
ReplaceUnsafe(s) ==
  Concat([i \in 1..Len(s) |->
            IF CharAt(s, i) \in SafeChars THEN CharAt(s, i) ELSE "_"],
         1, Len(s))

\* s.replace(/\.\./g, "."): every pair of dots becomes one dot, so that a
\* run of four leaves two
CollapseDotsPairs(s) ==
  LET before(i) == {k \in 1..(i - 1) : CharAt(s, k) # "."}
      RunPos(i) == i - (IF before(i) = {} THEN 0
                        ELSE CHOOSE k \in before(i) : \A j \in before(i) : j <= k)
  IN  Concat([i \in 1..Len(s) |->
                IF CharAt(s, i) = "." /\ RunPos(i) % 2 = 0
                THEN "" ELSE CharAt(s, i)],
             1, Len(s))

\* s.replace(/\.{2,}/g, "."): every maximal run of two or more dots
\* becomes one dot, which is the first dot of the run
CollapseDots(s) ==
  Concat([i \in 1..Len(s) |->
            IF i > 1 /\ CharAt(s, i) = "." /\ CharAt(s, i - 1) = "."
            THEN "" ELSE CharAt(s, i)],
         1, Len(s))

Slice0(s, n) == IF Len(s) <= n THEN s ELSE SubSeq(s, 1, n)

sanitizeFilename(name) == Slice0(CollapseDots(ReplaceUnsafe(name)), MaxNameLen)

MaxInputLen == 4

\* file.name of the uploads whose key is built: every string of at most
\* MaxInputLen characters over a safe character, the dot and the path
\* separator, and names that are longer than the limit, before and after the
\* dots collapse
NameInputs ==
  LET RECURSIVE StringsUpTo(_)
      StringsUpTo(n) ==
        IF n = 0 THEN {""}
        ELSE LET S == StringsUpTo(n - 1)
             IN  S \cup {s \o c : s \in S, c \in {"a", ".", "/"}}
      RECURSIVE Rep(_, _)
      Rep(s, n) ==
        IF n = 0 THEN ""
        ELSE LET h == Rep(s, n \div 2)
             IN  IF n % 2 = 0 THEN h \o h ELSE h \o h \o s
  IN  StringsUpTo(MaxInputLen)
        \cup { Rep("a", MaxNameLen + 1),
               "../" \o Rep("a", MaxNameLen),
               Rep("a", MaxNameLen - 1) \o "..",
               Rep("a", MaxNameLen - 1) \o "../x",
               Rep("/.", MaxNameLen) }

\* ------------------------------------------------------------------------
\* The R2 bucket
\* ------------------------------------------------------------------------

\* `uploads/${this.name}/${Date.now()}-${crypto.randomUUID().slice(0, 8)}/${safeName}`
UploadKey(name, now, rand, safeName) ==
  "uploads/" \o name \o "/" \o now \o "-" \o rand \o "/" \o safeName

\* every key an upload can build
Keys ==
  { UploadKey(c, m, r, sanitizeFilename(f)) :
      c \in Convs, m \in Millis, r \in Rand8, f \in FileNames }

MetaNames == {"description", "transcript"}

\* customMetadata is a map from some of the names to strings
NoMeta == [m \in {} |-> ""]

\* an R2 object as get returns it; get returns null for a missing key
Obj(body, contentType, meta) ==
  [exists |-> TRUE, body |-> body, contentType |-> contentType,
   customMetadata |-> meta]
NotFound ==
  [exists |-> FALSE, body |-> "", contentType |-> "", customMetadata |-> NoMeta]

\* obj.customMetadata?.[n] as a condition: present and not the empty string
MetaTruthy(obj, n) ==
  n \in DOMAIN obj.customMetadata /\ obj.customMetadata[n] # ""

\* { ...obj.customMetadata, [n]: text }
MetaWith(meta, n, text) ==
  [m \in (DOMAIN meta) \cup {n} |-> IF m = n THEN text ELSE meta[m]]

\* ------------------------------------------------------------------------
\* File parts and their keys (vision.ts, audio.ts)
\* ------------------------------------------------------------------------

\* a key resolution that takes a url without the files/ prefix as the key
r2KeyFromUrlWhole(data) ==
  LET url == IF data.isString THEN data.val ELSE ""
  IN  IF StartsWith(url, "files/") THEN SliceFrom(url, Len("files/"))
      ELSE IF StartsWith(url, "/files/") THEN SliceFrom(url, Len("/files/"))
      ELSE url

\* r2KeyFromUrl of vision.ts
r2KeyFromUrl(data) ==
  LET url == IF data.isString THEN data.val ELSE ""
  IN  IF StartsWith(url, "files/") THEN SliceFrom(url, Len("files/"))
      ELSE IF StartsWith(url, "/files/") THEN SliceFrom(url, Len("/files/"))
      ELSE ""

\* r2KeyFromUrl of audio.ts (a second copy of the same function)
r2KeyFromUrlAudio(data) ==
  LET url == IF data.isString THEN data.val ELSE ""
  IN  IF StartsWith(url, "files/") THEN SliceFrom(url, Len("files/"))
      ELSE IF StartsWith(url, "/files/") THEN SliceFrom(url, Len("/files/"))
      ELSE ""

\* p.mediaType?.startsWith("image/")
isImageType(t) == StartsWith(t, "image/")

\* isAudioType of audio.ts
isAudioType(t) == StartsWith(t, "audio/") \/ t = "video/webm"

\* ------------------------------------------------------------------------
\* State
\* ------------------------------------------------------------------------

VARIABLES
  r2,       \* the bucket: key -> object, NotFound where there is none
  tasks,    \* the per-part async closures of the two normalizers
  reqCalls, \* the bucket calls the latest step made while serving a request
  resp,     \* the HTTP response the latest step sent (EmptyResp: none)
  calls,    \* the tool-call parts of the assistant message of the turn
  schedules,\* the schedules of the agent (agent.getSchedules())
  turn,     \* the turn: "ready", "normalizing" (onChatMessage before
            \* streamText), "streaming", "stopped" once it was aborted,
            \* "failed" once onChatMessage rejected
  messages, \* this.messages: the history of the conversation
  sent,     \* the message list the latest turn handed to the text model
  steps,    \* the model steps of the turn: how many streamText has run, and
            \* whether the latest one ended with tool calls
  norm,     \* the latest call of a normalizer on one message: the message,
            \* the kind, and the closures it started
  broadcasts, \* the events this.broadcast() has sent to the connected clients
  naming    \* the upload whose object key is being built: the file name
            \* received, then its sanitized name, then the key

bucketVars == <<r2, tasks, reqCalls, resp>>
toolVars == <<calls, schedules>>
turnVars == <<messages, sent, steps, norm, broadcasts, naming>>
chatVars ==
  <<calls, schedules, turn, messages, sent, steps, norm, broadcasts, naming>>

TaskIds == 1..MaxTasks

\* data values of the file parts of user messages
DataSet ==
  { Str("files/" \o UploadKey("c1", "1", "aaaaaaaa", "a.png")),
    Str("/files/" \o UploadKey("c2", "1", "aaaaaaaa", "a.png")),
    Str("files/"),
    Str("data:x"),
    NotAString }

TextPart(t) == [type |-> "text", text |-> t, mediaType |-> "", data |-> NotAString]
FilePart(mt, d) == [type |-> "file", text |-> "", mediaType |-> mt, data |-> d]

PartSet ==
  { TextPart("hi") } \cup { FilePart(mt, d) : mt \in {"image/png", "audio/webm"}, d \in DataSet }

\* the content arrays of user messages
Contents ==
  UNION { [1..n -> PartSet] : n \in 1..MaxParts }

IdleTask ==
  [pc |-> "idle", run |-> 0, agent |-> "", kind |-> "", data |-> NotAString,
   obj |-> NotFound, text |-> "", result |-> "",
   gets |-> 0, modelCalls |-> 0, puts |-> 0]

\* bucket.get(key)
R2Get(key) == IF key \in DOMAIN r2 THEN r2[key] ELSE NotFound

\* the metadata entry a normalizer caches its text in
MetaField(kind) == IF kind = "image" THEN "description" ELSE "transcript"

\* the filter that selects the parts a normalizer handles
IsHandled(kind, p) ==
  /\ p.type = "file"
  /\ IF kind = "image" THEN isImageType(p.mediaType) ELSE isAudioType(p.mediaType)

\* the key each normalizer resolves each data value to
KeyTable ==
  [kind \in {"image", "audio"} |->
     [d \in DataSet |->
        IF kind = "image" THEN r2KeyFromUrl(d) ELSE r2KeyFromUrlAudio(d)]]

KeyOf(kind, data) == KeyTable[kind][data]

\* msg.content.filter(...): the parts of a content array a normalizer
\* handles, for every content array of a user message
MediaLists ==
  [kind \in {"image", "audio"} |->
     { SelectSeq(c, LAMBDA p : IsHandled(kind, p)) : c \in Contents }]

UnknownText(kind) == IF kind = "image" THEN "[Unknown image]" ELSE "[Unknown audio]"
\* no sentinel for a missing object
MissingTextEmpty(kind) == ""

MissingText(kind) == IF kind = "image" THEN "[Image not found]" ELSE "[Audio not found]"

\* const { text } = await generateText(...)          (vision.ts)
\* const transcript = result.text || "[Could not transcribe]"   (audio.ts)
AdapterText(kind, text) ==
  IF kind = "image" THEN text
  ELSE IF text # "" THEN text ELSE "[Could not transcribe]"

\* the text part a normalizer puts in the place of a media part
Synth(kind, text) ==
  IF kind = "image" THEN "[Attached image: " \o text \o "]"
  ELSE "[Voice message: " \o text \o "]"

\* a cache test that never finds the cached text
CacheHitNever(kind, obj) == FALSE

\* the cache test on the object a get returned
CacheHit(kind, obj) == MetaTruthy(obj, MetaField(kind))

\* a Response: status, the members of a JSON body (error, key, url,
\* deleted, meta), a text or object body, and the headers of a served file
EmptyResp ==
  [status |-> 0, error |-> "", key |-> "", url |-> "", deleted |-> 0,
   meta |-> NoMeta, body |-> "", contentType |-> "", disposition |-> "",
   nosniff |-> FALSE]

NumUsed == Cardinality({t \in TaskIds : tasks[t].pc # "idle"})

\* ------------------------------------------------------------------------
\* The normalizers: describeImageParts and transcribeAudioParts
\* ------------------------------------------------------------------------

\* The synchronous prefix of the closure for one media part: resolve the key,
\* answer at once when there is none, else issue the get.
NewTask(run, agent, kind, p) ==
  IF KeyOf(kind, p.data) = ""
  THEN [IdleTask EXCEPT !.pc = "done", !.run = run, !.agent = agent,
                        !.kind = kind, !.data = p.data,
                        !.result = UnknownText(kind)]
  ELSE [IdleTask EXCEPT !.pc = "get", !.run = run, !.agent = agent,
                        !.kind = kind, !.data = p.data]

\* the number of normalizer calls that have started closures
NumRuns == Cardinality({ tasks[t].run : t \in TaskIds } \ {0})

\* One call of a normalizer on a user message of agent `agent` whose content
\* is an array and whose parts of the handled kind are `media`: a closure is
\* started for every one of them. At most `limit` closures exist in a
\* behaviour.
StartClosures(agent, kind, media, limit) ==
  LET n == NumUsed
  IN  /\ n < limit
      /\ Len(media) > 0
      /\ n + Len(media) <= limit
      /\ tasks' = [t \in TaskIds |->
                     IF t > n /\ t <= n + Len(media)
                     THEN NewTask(NumRuns + 1, agent, kind, media[t - n])
                     ELSE tasks[t]]
      /\ reqCalls' = {}
      /\ resp' = EmptyResp

StartParts(agent, kind, media, limit) ==
  /\ StartClosures(agent, kind, media, limit)
  /\ UNCHANGED <<r2, chatVars>>

\* a content array in which every media part of the handled kind is replaced,
\* where it stands, by its synthesized text part
NormalizedContentInPlace(kind, content, texts) ==
  LET nth(i) == Len(SelectSeq(SubSeq(content, 1, i), LAMBDA p : IsHandled(kind, p)))
  IN  [i \in 1..Len(content) |->
         IF IsHandled(kind, content[i])
         THEN TextPart(Synth(kind, texts[nth(i)]))
         ELSE content[i]]

\* content: [...msg.content.filter(p => !handled(p)),
\*           ...descriptions.map(d => ({type: "text", text: `[Attached image: ${d}]`}))]
NormalizedContent(kind, content, texts) ==
  SelectSeq(content, LAMBDA p : ~IsHandled(kind, p))
    \o [i \in 1..Len(texts) |-> TextPart(Synth(kind, texts[i]))]

MaxShapeParts == 3

\* The messages a normalizer is called on. A ModelMessage has a role and a
\* content, which is a string or an array of parts; the parts are a text, an
\* image whose object is stored, an image whose data resolves to no key, and
\* a voice recording.
ShapeMessages ==
  LET StringMessage(role, text) ==
        [role |-> role, isString |-> TRUE, text |-> text, content |-> <<>>]
      ArrayMessage(role, content) ==
        [role |-> role, isString |-> FALSE, text |-> "", content |-> content]
      file == Str("files/" \o UploadKey("c1", "1", "aaaaaaaa", "a.png"))
      ShapeParts ==
        { TextPart("hi"),
          FilePart("image/png", file),
          FilePart("image/png", Str("files/")),
          FilePart("audio/webm", file) }
      ShapeContents == UNION { [1..n -> ShapeParts] : n \in 1..MaxShapeParts }
  IN  { ArrayMessage("user", c) : c \in ShapeContents }
        \cup { ArrayMessage("assistant", c) : c \in {d \in ShapeContents : Len(d) = 1} }
        \cup { StringMessage("user", "hi"), StringMessage("system", "hi") }

\* One call of a normalizer on one message. The three early returns start no
\* closure; otherwise a closure is started for every media part of the
\* handled kind, in the order of the parts.
NormalizeMessage(agent, kind, msg) ==
  LET media == SelectSeq(msg.content, LAMBDA p : IsHandled(kind, p))
  IN  /\ ~norm.called
      /\ IF msg.role # "user" \/ msg.isString \/ Len(media) = 0
         THEN /\ norm' = [called |-> TRUE, kind |-> kind, msg |-> msg, first |-> 0,
                          k |-> 0, returned |-> TRUE, out |-> msg]
              /\ UNCHANGED <<tasks, reqCalls, resp>>
         ELSE /\ StartClosures(agent, kind, media, MaxTasks)
              /\ norm' = [called |-> TRUE, kind |-> kind, msg |-> msg,
                          first |-> NumUsed, k |-> Len(media),
                          returned |-> FALSE, out |-> msg]
      /\ UNCHANGED <<r2, toolVars, turn, messages, sent, steps, broadcasts, naming>>

\* const descriptions = await Promise.all(...); return {...msg, content: [...]}
\* Promise.all resolves to the texts in the order of the closures, once every
\* closure has returned.
ReturnMessage ==
  /\ norm.called
  /\ ~norm.returned
  /\ \A i \in 1..norm.k : tasks[norm.first + i].pc = "done"
  /\ norm' = [norm EXCEPT
       !.returned = TRUE,
       !.out = [norm.msg EXCEPT !.content =
                  NormalizedContent(norm.kind, norm.msg.content,
                    [i \in 1..norm.k |-> tasks[norm.first + i].result])]]
  /\ UNCHANGED <<bucketVars, toolVars, turn, messages, sent, steps, broadcasts, naming>>

\* await bucket.get(r2Key), and the two early returns that follow it
TaskGet(t) ==
  LET tk == tasks[t]
      key == KeyOf(tk.kind, tk.data)
      o == R2Get(key)
  IN  /\ tk.pc = "get"
      /\ reqCalls' = {}
      /\ tasks' = [tasks EXCEPT ![t] =
           IF ~o.exists
           THEN [tk EXCEPT !.pc = "done", !.gets = tk.gets + 1,
                           !.result = MissingText(tk.kind)]
           ELSE IF CacheHit(tk.kind, o)
           THEN [tk EXCEPT !.pc = "done", !.gets = tk.gets + 1,
                           !.result = o.customMetadata[MetaField(tk.kind)]]
           ELSE [tk EXCEPT !.pc = "model", !.gets = tk.gets + 1, !.obj = o]]
      /\ resp' = EmptyResp
      /\ UNCHANGED <<r2, chatVars>>

\* await obj.arrayBuffer() and the model adapter call, which returns `text`
TaskModel(t, text) ==
  LET tk == tasks[t]
  IN  /\ tk.pc = "model"
      /\ tasks' = [tasks EXCEPT ![t] =
           [tk EXCEPT !.pc = "put", !.text = AdapterText(tk.kind, text),
                      !.modelCalls = tk.modelCalls + 1]]
      /\ reqCalls' = {}
      /\ resp' = EmptyResp
      /\ UNCHANGED <<r2, chatVars>>

\* a write-back that stores the metadata of the get as it was
WriteBackNoText(kind, obj, text) ==
  Obj(obj.body, obj.contentType, obj.customMetadata)

\* the object a write-back stores: the body and httpMetadata of the get,
\* and its customMetadata with the one entry added
WriteBack(kind, obj, text) ==
  Obj(obj.body, obj.contentType, MetaWith(obj.customMetadata, MetaField(kind), text))

\* await bucket.put(r2Key, buffer, {...}); return text
TaskPut(t) ==
  LET tk == tasks[t]
      key == KeyOf(tk.kind, tk.data)
  IN  /\ tk.pc = "put"
      /\ r2' = [k \in (DOMAIN r2) \cup {key} |->
                  IF k = key THEN WriteBack(tk.kind, tk.obj, tk.text) ELSE r2[k]]
      /\ reqCalls' = {}
      /\ tasks' = [tasks EXCEPT ![t] =
           [tk EXCEPT !.pc = "done", !.result = tk.text, !.puts = tk.puts + 1,
                      !.obj = NotFound, !.text = ""]]
      /\ resp' = EmptyResp
      /\ UNCHANGED chatVars

\* An awaited call of the closure rejects: bucket.get, obj.arrayBuffer or
\* the model adapter, or bucket.put. Neither normalizer has a try/catch, so
\* the closure's promise rejects and the closure returns no text.
TaskReject(t) ==
  LET tk == tasks[t]
  IN  /\ tk.pc \in {"get", "model", "put"}
      /\ tasks' = [tasks EXCEPT ![t] =
           [tk EXCEPT !.pc = "rejected", !.obj = NotFound, !.text = ""]]
      /\ reqCalls' = {}
      /\ resp' = EmptyResp
      /\ UNCHANGED <<r2, chatVars>>

\* ------------------------------------------------------------------------
\* ChatAgent.onRequest: the file routes
\* ------------------------------------------------------------------------

\* a limit that is one byte too high
MAX_UPLOAD_BYTES_PLUS_1 == 10 * 1024 * 1024 + 1

MAX_UPLOAD_BYTES == 10 * 1024 * 1024

\* formData.get("file"): a File, or null
NoFile == [present |-> FALSE, size |-> 0, type |-> "", name |-> "", body |-> ""]
File(sz, ty, nm, b) ==
  [present |-> TRUE, size |-> sz, type |-> ty, name |-> nm, body |-> b]
UploadFiles ==
  { File(MAX_UPLOAD_BYTES, "image/png", "a.png", "b1"),
    File(MAX_UPLOAD_BYTES + 1, "image/png", "a.png", "b1"),
    File(1, "image/png", "a.png", "b9"),
    File(1, "text/html", "x y.html", "bh"),
    File(1, "", "n.bin", "bn"),
    NoFile }

\* sanitizeFilename(file.name) for the names offered to upload
SafeName == [f \in FileNames |-> sanitizeFilename(f)]

\* POST upload on the agent instance `name`
Upload(name, file, now, rand) ==
  IF ~file.present
  THEN /\ resp' = [EmptyResp EXCEPT !.status = 400, !.error = "No file provided"]
       /\ reqCalls' = {}
       /\ UNCHANGED <<r2, tasks, chatVars>>
  ELSE IF file.size > MAX_UPLOAD_BYTES
  THEN /\ resp' = [EmptyResp EXCEPT !.status = 413,
                     !.error = "File too large (max "
                               \o ToString((MAX_UPLOAD_BYTES \div 1024) \div 1024)
                               \o "MB)"]
       /\ reqCalls' = {}
       /\ UNCHANGED <<r2, tasks, chatVars>>
  ELSE LET safeName == SafeName[file.name]
           key == UploadKey(name, now, rand, safeName)
       IN  /\ resp' = [EmptyResp EXCEPT !.status = 200, !.key = key,
                                        !.url = "files/" \o key]
           /\ reqCalls' = {[agent |-> name, op |-> "put", key |-> key]}
           /\ r2' = [k \in (DOMAIN r2) \cup {key} |->
                       IF k = key THEN Obj(file.body, file.type, NoMeta) ELSE r2[k]]
           /\ UNCHANGED <<tasks, chatVars>>

\* the `keys` member of the JSON body of delete-files: an array of values,
\* or not an array
NotArray == [isArray |-> FALSE, items |-> << >>]
KeyArray(items) == [isArray |-> TRUE, items |-> items]

MaxDeleteKeys == 2

\* members of the `keys` array: a key of the conversation, a key of the
\* other conversation, and a value that is not a string
DeleteItems ==
  { Str(UploadKey("c1", "1", "aaaaaaaa", "a.png")),
    Str(UploadKey("c2", "1", "aaaaaaaa", "a.png")),
    NotAString }

DeleteInputs ==
  {NotArray} \cup
  { KeyArray(items) :
      items \in UNION { [1..n -> DeleteItems] : n \in 0..MaxDeleteKeys } }

\* POST delete-files on the agent instance `name`
DeleteFiles(name, keys) ==
  IF ~keys.isArray
  THEN /\ resp' = [EmptyResp EXCEPT !.status = 400,
                                    !.error = "Expected { keys: string[] }"]
       /\ reqCalls' = {}
       /\ UNCHANGED <<r2, tasks, chatVars>>
  ELSE LET prefix == Prefix(name)
           safeKeys == SelectSeq(keys.items,
                         LAMBDA k : k.isString /\ StartsWith(k.val, prefix))
           gone == { safeKeys[i].val : i \in 1..Len(safeKeys) }
       IN  /\ resp' = [EmptyResp EXCEPT !.status = 200, !.deleted = Len(safeKeys)]
           /\ reqCalls' = { [agent |-> name, op |-> "delete", key |-> k] : k \in gone }
           /\ r2' = IF Len(safeKeys) > 0
                    THEN [k \in DOMAIN r2 |-> IF k \in gone THEN NotFound ELSE r2[k]]
                    ELSE r2
           /\ UNCHANGED <<tasks, chatVars>>

\* a scope test that lets every upload key pass
InScopeAny(name, key) == StartsWith(key, "uploads/")

\* key.startsWith(`uploads/${this.name}/`)
InScope(name, key) == StartsWith(key, Prefix(name))

\* bucket.head(key): the metadata of the object, or null
R2Head(key) == R2Get(key)

\* GET files-meta/:key on the agent instance `name`
FilesMeta(name, key) ==
  /\ IF ~InScope(name, key)
     THEN /\ resp' = [EmptyResp EXCEPT !.status = 403, !.body = "Forbidden"]
          /\ reqCalls' = {}
     ELSE /\ reqCalls' = {[agent |-> name, op |-> "head", key |-> key]}
          /\ resp' = IF ~R2Head(key).exists
                     THEN [EmptyResp EXCEPT !.status = 404]
                     ELSE [EmptyResp EXCEPT !.status = 200,
                                            !.meta = R2Head(key).customMetadata]
  /\ UNCHANGED <<r2, tasks, chatVars>>

\* an allow-list that also serves HTML inline
SAFE_CONTENT_TYPES_HTML ==
  { "image/png", "image/jpeg", "image/gif", "image/webp", "image/svg+xml",
    "audio/webm", "audio/mp4", "audio/ogg", "audio/mpeg", "application/pdf",
    "text/html" }

SAFE_CONTENT_TYPES ==
  { "image/png", "image/jpeg", "image/gif", "image/webp", "image/svg+xml",
    "audio/webm", "audio/mp4", "audio/ogg", "audio/mpeg", "application/pdf" }

\* key.split("/").pop(): what follows the last "/"
RECURSIVE LastSegment(_)
LastSegment(s) ==
  IF \E i \in 1..Len(s) : CharAt(s, i) = "/"
  THEN LastSegment(SliceFrom(s, CHOOSE i \in 1..Len(s) : CharAt(s, i) = "/"))
  ELSE s

\* key.split("/").pop() for every key an upload can build
FileNameOf == [k \in Keys |-> LastSegment(k)]

\* obj.httpMetadata?.contentType || "application/octet-stream"
ContentTypeOf(obj) ==
  IF obj.contentType # "" THEN obj.contentType ELSE "application/octet-stream"

\* GET files/:key on the agent instance `name`
Serve(name, key) ==
  /\ IF ~InScope(name, key)
     THEN /\ resp' = [EmptyResp EXCEPT !.status = 403, !.body = "Forbidden"]
          /\ reqCalls' = {}
     ELSE /\ reqCalls' = {[agent |-> name, op |-> "get", key |-> key]}
          /\ resp' =
               LET obj == R2Get(key)
                   contentType == ContentTypeOf(obj)
               IN  IF ~obj.exists
                   THEN [EmptyResp EXCEPT !.status = 404, !.body = "Not found"]
                   ELSE IF contentType \in SAFE_CONTENT_TYPES
                   THEN [EmptyResp EXCEPT !.status = 200, !.body = obj.body,
                                          !.nosniff = TRUE,
                                          !.contentType = contentType]
                   ELSE [EmptyResp EXCEPT !.status = 200, !.body = obj.body,
                                          !.nosniff = TRUE,
                                          !.contentType = "application/octet-stream",
                                          !.disposition =
                                             "attachment; filename=\""
                                               \o FileNameOf[key] \o "\""]
  /\ UNCHANGED <<r2, tasks, chatVars>>

\* ------------------------------------------------------------------------
\* tools.ts: the tool definitions
\* ------------------------------------------------------------------------

ToolNames ==
  {"getWeather", "getUserTimezone", "calculate",
   "scheduleTask", "getScheduledTasks", "cancelScheduledTask"}

\* the tools that are defined with an execute function
HasExecute(tool) == tool # "getUserTimezone"

\* z.enum(["+", "-", "*", "/", "%"])
Operators == {"+", "-", "*", "/", "%"}

\* Math.abs
Abs(x) == IF x < 0 THEN -x ELSE x

\* JavaScript numbers that arithmetic on integers produces: fractions in
\* lowest terms, NaN and the infinities (a zero result is written 0)
Finite(n, d) == [kind |-> "finite", num |-> n, den |-> d]
NaN == [kind |-> "NaN", num |-> 0, den |-> 1]
Infinite(sign) == [kind |-> "Infinity", num |-> sign, den |-> 1]

RECURSIVE Gcd(_, _)
Gcd(x, y) == IF y = 0 THEN x ELSE Gcd(y, x % y)

\* x / y
JsDiv(x, y) ==
  IF y = 0
  THEN (IF x = 0 THEN NaN ELSE Infinite(IF x > 0 THEN 1 ELSE -1))
  ELSE LET g == Gcd(Abs(x), Abs(y))
           n == Abs(x) \div g
           d == Abs(y) \div g
       IN  Finite(IF (x < 0) # (y < 0) THEN -n ELSE n, d)

\* x % y: the remainder has the sign of the dividend
JsRem(x, y) ==
  IF y = 0 THEN NaN
  ELSE LET r == Abs(x) % Abs(y)
       IN  Finite(IF x < 0 THEN -r ELSE r, 1)

\* the table ops of calculate.execute
ops(operator, x, y) ==
  CASE operator = "+" -> Finite(x + y, 1)
    [] operator = "-" -> Finite(x - y, 1)
    [] operator = "*" -> Finite(x * y, 1)
    [] operator = "/" -> JsDiv(x, y)
    [] operator = "%" -> JsRem(x, y)

\* an approval predicate with the boundary on the wrong side
needsApprovalFrom1000(tool, input) ==
  tool = "calculate" /\ (Abs(input.a) >= 1000 \/ Abs(input.b) >= 1000)

\* needsApproval: only calculate has one
needsApproval(tool, input) ==
  tool = "calculate" /\ (Abs(input.a) > 1000 \/ Abs(input.b) > 1000)

\* what an execute call does: it returns a value or it rejects, and it
\* leaves the schedules of the agent as `sch`
Returns(v, sch) == [threw |-> FALSE, value |-> v, sch |-> sch]
Rejects(msg, sch) == [threw |-> TRUE, value |-> [message |-> msg], sch |-> sch]

\* a tool output that is a string
TextOut(t) == [text |-> t]

\* calculate.execute with the two operands taken in the other order
calculateSwapped(input) ==
  IF input.operator = "/" /\ input.b = 0
  THEN [error |-> "Division by zero"]
  ELSE [expression |-> ToString(input.b) \o " " \o input.operator \o " "
                         \o ToString(input.a),
        result |-> ops(input.operator, input.b, input.a)]

\* calculate.execute
calculate(input) ==
  IF input.operator = "/" /\ input.b = 0
  THEN [error |-> "Division by zero"]
  ELSE [expression |-> ToString(input.a) \o " " \o input.operator \o " "
                         \o ToString(input.b),
        result |-> ops(input.operator, input.a, input.b)]

\* getWeather.execute: Math.floor(Math.random() * 30) + 5 and one of the
\* four conditions
getWeather(input) ==
  { [city |-> input.city, temperature |-> t, condition |-> c, unit |-> "celsius"] :
      t \in {5, 34}, c \in {"sunny", "cloudy", "rainy", "snowy"} }

\* ids of the schedules the agent creates
SchedIds == {"s1"}

\* the `when` of scheduleSchema; a member that is absent is "" or 0
When(type, date, delay, cron) ==
  [type |-> type, date |-> date, delayInSeconds |-> delay, cron |-> cron]

\* the `input` of scheduleTask.execute as text; "" when it is falsy
ScheduleInput(when) ==
  IF when.type = "scheduled" THEN when.date
  ELSE IF when.type = "delayed"
       THEN (IF when.delayInSeconds = 0 THEN "" ELSE ToString(when.delayInSeconds))
  ELSE IF when.type = "cron" THEN when.cron
  ELSE ""

\* scheduleTask.execute; hasAgent: getCurrentAgent() found the agent
scheduleTask(input, hasAgent, sch) ==
  IF ~hasAgent THEN {Returns(TextOut("Agent context not available"), sch)}
  ELSE IF input.when.type = "no-schedule"
  THEN {Returns(TextOut("Not a valid schedule input"), sch)}
  ELSE IF ScheduleInput(input.when) = ""
  THEN {Returns(TextOut("Invalid schedule type"), sch)}
  ELSE \* agent.schedule(...) creates the schedule, or throws
       { Returns(TextOut("Task scheduled: \"" \o input.description \o "\" ("
                           \o input.when.type \o ": "
                           \o ScheduleInput(input.when) \o ")"),
                 sch \cup {[id |-> id, description |-> input.description]}) :
           id \in SchedIds \ { x.id : x \in sch } }
       \cup {Returns(TextOut("Error scheduling task: Error"), sch)}

\* getScheduledTasks.execute
getScheduledTasks(hasAgent, sch) ==
  IF ~hasAgent THEN {Returns(TextOut("Agent context not available"), sch)}
  ELSE \* agent.getSchedules() returns the schedules, or throws
       { Returns(IF sch # {} THEN [tasks |-> sch]
                 ELSE TextOut("No scheduled tasks found."), sch),
         Rejects("getSchedules failed", sch) }

\* cancelScheduledTask.execute
cancelScheduledTask(input, hasAgent, sch) ==
  IF ~hasAgent THEN {Returns(TextOut("Agent context not available"), sch)}
  ELSE \* agent.cancelSchedule(taskId) removes the schedule, or throws
       { Returns(TextOut("Task " \o input.taskId \o " cancelled."),
                 { x \in sch : x.id # input.taskId }),
         Returns(TextOut("Error cancelling task: Error"), sch) }

\* the inputs the model can produce for each tool
InputsOf(tool) ==
  CASE tool = "getWeather" -> { [city |-> "Paris"] }
    [] tool = "getUserTimezone" -> { [empty |-> TRUE] }
    [] tool = "calculate" ->
         \* a and b on both sides of the bound of needsApproval
         { [a |-> a, b |-> b, operator |-> o] :
             a \in {-1001, 0, 1000, 5000}, b \in {-1000, 0, 3, 5000},
             o \in Operators }
    [] tool = "scheduleTask" ->
         { [when |-> w, description |-> "d1"] :
             w \in { When("no-schedule", "", 0, ""),
                     When("scheduled", "2026-12-01", 0, ""),
                     When("delayed", "", 60, ""),
                     When("delayed", "", 0, ""),
                     When("cron", "", 0, "0 9 * * *") } }
    [] tool = "getScheduledTasks" -> { [empty |-> TRUE] }
    [] tool = "cancelScheduledTask" -> { [taskId |-> id] : id \in SchedIds }
    [] OTHER -> {}

\* every way the execute function of `tool` can end on `input`
Execute(tool, input, sch) ==
  CASE tool = "getWeather" -> { Returns(v, sch) : v \in getWeather(input) }
    [] tool = "calculate" -> { Returns(calculate(input), sch) }
    [] tool = "scheduleTask" ->
         UNION { scheduleTask(input, h, sch) : h \in BOOLEAN }
    [] tool = "getScheduledTasks" ->
         UNION { getScheduledTasks(h, sch) : h \in BOOLEAN }
    [] tool = "cancelScheduledTask" ->
         UNION { cancelScheduledTask(input, h, sch) : h \in BOOLEAN }
    [] OTHER -> {}

\* ------------------------------------------------------------------------
\* The tool calls of a turn: the executor that streamText runs over the
\* tools, and the client's part in it (app.tsx)
\* ------------------------------------------------------------------------

MaxCalls == 1
CallIds == 1..MaxCalls

NoInput == [empty |-> TRUE]
NoOutput == [none |-> TRUE]

\* a toolCall part; state "none": the model has not requested the call.
\* execs counts the invocations of execute, decided is the decision that
\* arrived for the approval ("none", "approved", "rejected")
IdleCall ==
  [state |-> "none", tool |-> "", input |-> NoInput, output |-> NoOutput,
   approvalId |-> "", decided |-> "none", execs |-> 0]

NoSteps == [count |-> 0, toolCalls |-> FALSE]

\* no upload whose key is being built
NoNaming ==
  [pc |-> "idle", conv |-> "", now |-> "", rand |-> "", name |-> "",
   safeName |-> "", key |-> ""]

\* no normalizer call on a message yet
NoNorm == [called |-> FALSE]

InitChat ==
  /\ calls = [c \in CallIds |-> IdleCall]
  /\ schedules = {}
  /\ turn = "ready"
  /\ messages = <<>>
  /\ sent = [by |-> "", messages |-> <<>>]
  /\ steps = NoSteps
  /\ norm = NoNorm
  /\ broadcasts = {}
  /\ naming = NoNaming

\* the correlation id of the approval of call c
ApprovalId(c) == "approval-" \o ToString(c)

\* the model starts to produce the call: calls are requested in order
ToolInputStart(c, tool) ==
  /\ turn = "streaming"
  /\ calls[c].state = "none"
  /\ \A d \in CallIds : d < c => calls[d].state # "none"
  /\ calls' = [calls EXCEPT ![c] = [IdleCall EXCEPT !.state = "input-streaming",
                                                   !.tool = tool]]
  /\ UNCHANGED <<bucketVars, schedules, turn, turnVars>>

\* the model has fully produced the input of the call
ToolInputAvailable(c, input) ==
  /\ turn = "streaming"
  /\ calls[c].state = "input-streaming"
  /\ input \in InputsOf(calls[c].tool)
  /\ calls' = [calls EXCEPT ![c].state = "input-available", ![c].input = input]
  /\ UNCHANGED <<bucketVars, schedules, turn, turnVars>>

\* what the executor makes of the end of an execute call: the value it
\* returned, or the error it rejected with captured as a value
Captured(r) == IF r.threw THEN [error |-> r.value.message] ELSE r.value

\* the call after execute ended as r
Executed(call, r) ==
  [call EXCEPT !.state = "output-available", !.output = Captured(r),
               !.execs = call.execs + 1]

\* no approval is needed: execute runs at once
ExecuteNow(c) ==
  /\ turn = "streaming"
  /\ calls[c].state = "input-available"
  /\ HasExecute(calls[c].tool)
  /\ ~needsApproval(calls[c].tool, calls[c].input)
  /\ \E r \in Execute(calls[c].tool, calls[c].input, schedules) :
       /\ calls' = [calls EXCEPT ![c] = Executed(calls[c], r)]
       /\ schedules' = r.sch
  /\ UNCHANGED <<bucketVars, turn, turnVars>>

\* approval is needed: the call waits for the decision
RequestApproval(c) ==
  /\ turn = "streaming"
  /\ calls[c].state = "input-available"
  /\ HasExecute(calls[c].tool)
  /\ needsApproval(calls[c].tool, calls[c].input)
  /\ calls' = [calls EXCEPT ![c].state = "approval-requested",
                            ![c].approvalId = ApprovalId(c)]
  /\ UNCHANGED <<bucketVars, schedules, turn, turnVars>>

\* approval buttons that every part with an approval would show
ApprovalButtonsAnyState(part) == part.approvalId # ""

\* ToolPartView shows Approve and Reject for the part, and a click on one
\* of them sends a decision
ApprovalButtons(part) ==
  part.approvalId # "" /\ part.state = "approval-requested"

\* the decision {id, approved} arrives: execute runs, or the call is denied
ApprovalResponse(id, approved) ==
  \E c \in CallIds :
    /\ ApprovalButtons(calls[c])
    /\ calls[c].approvalId = id
    /\ IF approved
       THEN \E r \in Execute(calls[c].tool, calls[c].input, schedules) :
              /\ calls' = [calls EXCEPT
                   ![c] = [Executed(calls[c], r) EXCEPT !.decided = "approved"]]
              /\ schedules' = r.sch
       ELSE /\ calls' = [calls EXCEPT ![c].state = "output-denied",
                                      ![c].decided = "rejected"]
            /\ schedules' = schedules
    /\ UNCHANGED <<bucketVars, turn, turnVars>>

\* onToolCall of useAgentChat: the browser supplies the output of a call
\* to getUserTimezone
OnToolCall(c) ==
  /\ calls[c].state = "input-available"
  /\ calls[c].tool = "getUserTimezone"
  /\ \E tz \in {"Europe/Paris"}, lt \in {"09:00:00"} :
       calls' = [calls EXCEPT ![c].state = "output-available",
                              ![c].output = [timezone |-> tz, localTime |-> lt]]
  /\ UNCHANGED <<bucketVars, schedules, turn, turnVars>>

\* const isStreaming = status === "streaming" || status === "submitted"
isStreaming == turn = "streaming"

\* the stop button, shown while isStreaming: the stream is aborted and the
\* parts it had produced stay as they are
Stop ==
  /\ isStreaming
  /\ turn' = "stopped"
  /\ UNCHANGED <<bucketVars, toolVars, turnVars>>

\* the model signals completion; a call that has an execute function has
\* been carried to its output or waits for its approval by then, and a
\* client-side call has its output
Finish ==
  /\ isStreaming
  /\ \A c \in CallIds :
       calls[c].state \in {"none", "output-available", "output-denied",
                           "approval-requested"}
  /\ turn' = "ready"
  /\ UNCHANGED <<bucketVars, toolVars, turnVars>>

\* ------------------------------------------------------------------------
\* The turn: the history and what onChatMessage hands to the text model
\* ------------------------------------------------------------------------

MaxMsgs == 5

\* a message of the history, by its role and the states of its toolCall
\* parts ("none": no such part)
NoParts == [c \in CallIds |-> "none"]
UserMessage == [role |-> "user", parts |-> NoParts]
AssistantMessage(cs) ==
  [role |-> "assistant", parts |-> [c \in CallIds |-> cs[c].state]]

\* a toolCall part that has not been resolved
Unterminated(state) == state \in {"input-streaming", "input-available"}

\* cleanupMessages of ./utils: the unterminated toolCall parts are dropped
cleanupMessages(msgs) ==
  [i \in 1..Len(msgs) |->
     [msgs[i] EXCEPT !.parts =
        [c \in CallIds |-> IF Unterminated(msgs[i].parts[c]) THEN "none"
                           ELSE msgs[i].parts[c]]]]

\* convertToModelMessages: a model message per message, with a tool call
\* for each toolCall part whose input is complete
convertToModelMessages(msgs) ==
  [i \in 1..Len(msgs) |->
     [role |-> msgs[i].role,
      toolCalls |-> [c \in CallIds |->
                       IF msgs[i].parts[c] = "input-streaming" THEN "none"
                       ELSE msgs[i].parts[c]]]]

\* pruneMessages({messages, toolCalls: "before-last-2-messages"}): the
\* tool calls of the messages before the last two are removed
pruneMessages(msgs) ==
  [i \in 1..Len(msgs) |->
     IF i <= Len(msgs) - 2 THEN [msgs[i] EXCEPT !.toolCalls = NoParts]
     ELSE msgs[i]]

\* Chat.onChatMessage (the agent of the older server.ts): the messages of
\* streamText
ChatMessages(msgs) == convertToModelMessages(cleanupMessages(msgs))

\* ChatAgent.onChatMessage: the messages of streamText; the two
\* normalizers leave tool calls and messages without media as they are
ChatAgentMessages(msgs) == pruneMessages(convertToModelMessages(msgs))

AgentClasses == {"Chat", "ChatAgent"}

\* send() of app.tsx and the onChatMessage it causes: the user message is
\* appended to the history, which holds the assistant message of the
\* turn before as that turn left it, and the agent starts streamText
Send(by) ==
  /\ ~isStreaming
  /\ Len(messages) + 2 <= MaxMsgs
  /\ LET history == IF messages = <<>> THEN <<UserMessage>>
                    ELSE messages \o <<AssistantMessage(calls), UserMessage>>
     IN  /\ messages' = history
         /\ sent' = [by |-> by,
                     messages |-> IF by = "Chat" THEN ChatMessages(history)
                                  ELSE ChatAgentMessages(history)]
  /\ calls' = [c \in CallIds |-> IdleCall]
  /\ turn' = "streaming"
  /\ steps' = NoSteps
  /\ UNCHANGED <<bucketVars, schedules, norm, broadcasts, naming>>

\* A schedule of the agent fires and the agent class `by` runs executeTask.
\* ChatAgent broadcasts {type: "scheduled-task", description, timestamp} (the
\* timestamp is left out); Chat calls saveMessages with the history and one
\* more user message, "Running scheduled task: <description>".
executeTask(by, s) ==
  /\ s \in schedules
  /\ IF by = "ChatAgent"
     THEN /\ broadcasts' = broadcasts \cup
                {[type |-> "scheduled-task", description |-> s.description]}
          /\ messages' = messages
     ELSE /\ Len(messages) < MaxMsgs
          /\ messages' = Append(messages, UserMessage)
          /\ broadcasts' = broadcasts
  /\ UNCHANGED <<bucketVars, toolVars, turn, sent, steps, norm, naming>>

\* stopWhen: stepCountIs(5) of ChatAgent.onChatMessage, with a limit that is
\* one step too high
ChatAgentStepLimit6 == 5 + 1

\* stopWhen: stepCountIs(5) of ChatAgent.onChatMessage
ChatAgentStepLimit == 5

\* stopWhen: stepCountIs(10) of Chat.onChatMessage
ChatStepLimit == 10

\* the stop condition stepCountIs(n) on a turn that has run `count` steps
stepCountIs(n, count) == count = n

\* the stopWhen option the agent class `by` passes to streamText
stopWhen(by, count) ==
  IF by = "Chat" THEN stepCountIs(ChatStepLimit, count)
  ELSE stepCountIs(ChatAgentStepLimit, count)

\* streamText runs one model step, which ends with tool calls (and their
\* results) or without. It runs the first step, and a further step when the
\* latest one ended with tool calls and the stop condition is not met.
ModelStep(toolCalls) ==
  /\ turn = "streaming"
  /\ \/ steps.count = 0
     \/ steps.toolCalls /\ ~stopWhen(sent.by, steps.count)
  /\ steps' = [count |-> steps.count + 1, toolCalls |-> toolCalls]
  /\ UNCHANGED <<bucketVars, toolVars, turn, messages, sent, norm, broadcasts, naming>>

\* streamText has no further step to run
StepsDone ==
  /\ steps.count > 0
  /\ ~steps.toolCalls \/ stopWhen(sent.by, steps.count)

\* ------------------------------------------------------------------------
\* Specifications
\* ------------------------------------------------------------------------

vars == <<r2, tasks, reqCalls, resp, calls, schedules, turn, messages, sent, steps,
          norm, broadcasts, naming>>

\* The bucket outlives the agent instance: when the agent is constructed the
\* other conversation may already have uploaded its file.
InitBucket ==
  r2 \in { [k \in Keys |-> IF StartsWith(k, Prefix("c2")) /\ there
                           THEN Obj("b2", "image/png", NoMeta) ELSE NotFound] :
             there \in BOOLEAN }

Init ==
  /\ InitBucket
  /\ tasks = [t \in TaskIds |-> IdleTask]
  /\ reqCalls = {}
  /\ resp = EmptyResp
  /\ InitChat

\* the steps of the closures that are under way
TaskStep ==
  \/ \E t \in TaskIds : TaskGet(t)
  \/ \E t \in TaskIds, text \in Texts : TaskModel(t, text)
  \/ \E t \in TaskIds : TaskPut(t)

\* normalizer calls start at any time, also while earlier ones are under way
Normalize ==
  \/ \E agent \in Served, kind \in {"image", "audio"} :
       \E media \in MediaLists[kind] : StartParts(agent, kind, media, MaxTasks)
  \/ TaskStep

\* number of closures that run next to the file routes
MaxRouteTasks == 1

\* the suffixes drawn by the uploads that run next to the normalizers
RouteRands == {"aaaaaaaa"}

Next ==
  \/ \E name \in Served, file \in UploadFiles, now \in Millis, rand \in RouteRands :
       Upload(name, file, now, rand)
  \/ \E name \in Served, keys \in DeleteInputs : DeleteFiles(name, keys)
  \/ \E name \in Served, key \in Keys : FilesMeta(name, key)
  \/ \E name \in Served, key \in Keys : Serve(name, key)
  \/ \E agent \in Served, kind \in {"image", "audio"} :
       \E media \in MediaLists[kind] : StartParts(agent, kind, media, MaxRouteTasks)
  \/ TaskStep

\* the agent with its file routes and its normalizers
Spec == Init /\ [][Next]_vars

\* the file routes alone, with every suffix an upload can draw
NextFiles ==
  \/ \E name \in Served, file \in UploadFiles, now \in Millis, rand \in Rand8 :
       Upload(name, file, now, rand)
  \/ \E name \in Served, keys \in DeleteInputs : DeleteFiles(name, keys)
  \/ \E name \in Served, key \in Keys : FilesMeta(name, key)
  \/ \E name \in Served, key \in Keys : Serve(name, key)

SpecFiles == Init /\ [][NextFiles]_vars

\* uploads, the normalizers that write back to the uploaded objects, and
\* the GETs of the files
\* the media lists of the messages that attach the uploaded a.png
RoundMedia ==
  [kind \in {"image", "audio"} |->
     { m \in MediaLists[kind] :
         \A i \in 1..Len(m) :
           m[i].data = Str("files/" \o UploadKey("c1", "1", "aaaaaaaa", "a.png")) }]

NextRound ==
  \/ \E name \in Served, file \in UploadFiles, now \in Millis, rand \in RouteRands :
       Upload(name, file, now, rand)
  \/ \E name \in Served, key \in Keys : Serve(name, key)
  \/ \E agent \in Served, kind \in {"image", "audio"} :
       \E media \in RoundMedia[kind] : StartParts(agent, kind, media, MaxRouteTasks)
  \/ TaskStep

SpecRound == Init /\ [][NextRound]_vars

\* The normalizers alone, over a bucket in which each conversation has or
\* has not uploaded its file.
InitNorm ==
  /\ r2 \in { [k \in Keys |-> IF StartsWith(k, Prefix("c2"))
                             THEN (IF there THEN Obj("b2", "image/png", NoMeta)
                                   ELSE NotFound)
                             ELSE (IF mine THEN Obj("b1", "image/png", NoMeta)
                                   ELSE NotFound)] :
               there \in BOOLEAN, mine \in BOOLEAN }
  /\ tasks = [t \in TaskIds |-> IdleTask]
  /\ reqCalls = {}
  /\ resp = EmptyResp
  /\ InitChat

NextNorm == Normalize

SpecNorm == InitNorm /\ [][NextNorm]_vars

\* Normalizer calls in sequence: a call starts only after every closure of
\* the earlier calls has returned.
AllReturned == \A t \in TaskIds : tasks[t].pc \in {"idle", "done"}

NextSeq ==
  \/ /\ AllReturned
     /\ \E agent \in Served, kind \in {"image", "audio"} :
          \E media \in MediaLists[kind] : StartParts(agent, kind, media, MaxTasks)
  \/ TaskStep

SpecSeq == InitNorm /\ [][NextSeq]_vars

\* The normalizers of the two conversations. The agent instances are
\* separate Durable Objects that run at the same time; the normalizer calls
\* of one instance follow one another, as its turns and the two awaits of
\* onChatMessage do.
NextCross ==
  \/ \E agent \in Convs, kind \in {"image", "audio"} :
       \E media \in MediaLists[kind] :
         /\ \A t \in TaskIds : tasks[t].agent = agent => tasks[t].pc = "done"
         /\ StartParts(agent, kind, media, MaxTasks)
  \/ TaskStep

SpecCross == InitNorm /\ [][NextCross]_vars

\* The pre-processing of one turn of ChatAgent, with calls that can fail.
\* onChatMessage is called for the first user message of the conversation
\* and converts the history.
StartTurn ==
  /\ turn = "ready"
  /\ messages = <<>>
  /\ messages' = <<UserMessage>>
  /\ turn' = "normalizing"
  /\ UNCHANGED <<bucketVars, toolVars, sent, steps, norm, broadcasts, naming>>

\* describeImageParts is called first and transcribeAudioParts after it has
\* returned; each starts the closures of its media parts.
StartNormalizer(agent, kind, media) ==
  /\ turn = "normalizing"
  /\ AllReturned
  /\ IF kind = "image" THEN NumRuns = 0
     ELSE \A t \in TaskIds : tasks[t].kind # "audio"
  /\ StartParts(agent, kind, media, MaxTasks)

\* both normalizers have returned: streamText is called
InvokeTextModel ==
  /\ turn = "normalizing"
  /\ AllReturned
  /\ turn' = "streaming"
  /\ sent' = [by |-> "ChatAgent", messages |-> ChatAgentMessages(messages)]
  /\ steps' = NoSteps
  /\ UNCHANGED <<bucketVars, toolVars, messages, norm, broadcasts, naming>>

\* A closure has rejected: Promise.all rejects with its error, the await of
\* the normalizer throws, and onChatMessage, which has no try/catch either,
\* rejects before streamText is called.
RejectTurn ==
  /\ turn = "normalizing"
  /\ \E t \in TaskIds : tasks[t].pc = "rejected"
  /\ turn' = "failed"
  /\ UNCHANGED <<bucketVars, toolVars, turnVars>>

NextFail ==
  \/ StartTurn
  \/ \E agent \in Served, kind \in {"image", "audio"} :
       \E media \in MediaLists[kind] : StartNormalizer(agent, kind, media)
  \/ TaskStep
  \/ \E t \in TaskIds : TaskReject(t)
  \/ InvokeTextModel
  \/ RejectTurn
  \/ \E toolCalls \in BOOLEAN : ModelStep(toolCalls)
  \/ StepsDone /\ Finish

SpecFail == InitNorm /\ [][NextFail]_vars

\* The model steps of the turns of a conversation, for both agent classes.
NextSteps ==
  \/ \E by \in AgentClasses : Send(by)
  \/ \E toolCalls \in BOOLEAN : ModelStep(toolCalls)
  \/ StepsDone /\ Finish

SpecSteps == Init /\ [][NextSteps]_vars

\* the tool calls of the first turn of a conversation
InitTool ==
  /\ r2 = [k \in Keys |-> NotFound]
  /\ tasks = [t \in TaskIds |-> IdleTask]
  /\ reqCalls = {}
  /\ resp = EmptyResp
  /\ calls = [c \in CallIds |-> IdleCall]
  /\ schedules = {}
  /\ turn = "streaming"
  /\ messages = <<UserMessage>>
  /\ sent = [by |-> "ChatAgent", messages |-> ChatAgentMessages(<<UserMessage>>)]
  /\ steps = NoSteps
  /\ norm = NoNorm
  /\ broadcasts = {}
  /\ naming = NoNaming

NextTool ==
  \/ \E c \in CallIds, tool \in ToolNames : ToolInputStart(c, tool)
  \/ \E c \in CallIds : \E input \in InputsOf(calls[c].tool) :
       ToolInputAvailable(c, input)
  \/ \E c \in CallIds : ExecuteNow(c)
  \/ \E c \in CallIds : RequestApproval(c)
  \/ \E c \in CallIds, approved \in BOOLEAN :
       ApprovalResponse(ApprovalId(c), approved)
  \/ \E c \in CallIds : OnToolCall(c)
  \/ Stop
  \/ Finish

SpecTool == InitTool /\ [][NextTool]_vars

\* the bucket when the normalizer is called on the message: the file of the
\* conversation is stored, without a cached text
ShapeBucket ==
  [k \in Keys |-> IF k = UploadKey("c1", "1", "aaaaaaaa", "a.png")
                  THEN Obj("b1", "image/png", NoMeta) ELSE NotFound]

InitShape ==
  /\ r2 = ShapeBucket
  /\ tasks = [t \in TaskIds |-> IdleTask]
  /\ reqCalls = {}
  /\ resp = EmptyResp
  /\ InitChat

\* one normalizer call on one message, its closures in every interleaving
NextShape ==
  \/ \E agent \in Served, kind \in {"image", "audio"}, msg \in ShapeMessages :
       NormalizeMessage(agent, kind, msg)
  \/ TaskStep
  \/ \E t \in TaskIds : TaskReject(t)
  \/ ReturnMessage

SpecShape == InitShape /\ [][NextShape]_vars

\* The upload route has accepted a file and builds its key: the name, the
\* conversation, the clock and the random prefix are drawn here.
InitName ==
  /\ InitBucket
  /\ tasks = [t \in TaskIds |-> IdleTask]
  /\ reqCalls = {}
  /\ resp = EmptyResp
  /\ calls = [c \in CallIds |-> IdleCall]
  /\ schedules = {}
  /\ turn = "ready"
  /\ messages = <<>>
  /\ sent = [by |-> "", messages |-> <<>>]
  /\ steps = NoSteps
  /\ norm = NoNorm
  /\ broadcasts = {}
  /\ naming \in { [NoNaming EXCEPT !.pc = "received", !.conv = c, !.now = m,
                                   !.rand = r, !.name = n] :
                    c \in Convs, m \in Millis, r \in Rand8, n \in NameInputs }

\* const safeName = sanitizeFilename(file.name)
SanitizeName ==
  /\ naming.pc = "received"
  /\ naming' = [naming EXCEPT !.pc = "named",
                              !.safeName = sanitizeFilename(naming.name)]
  /\ UNCHANGED <<bucketVars, toolVars, turn, messages, sent, steps, norm,
                 broadcasts>>

\* const key = `uploads/${this.name}/${Date.now()}-${...slice(0, 8)}/${safeName}`
BuildKey ==
  /\ naming.pc = "named"
  /\ naming' = [naming EXCEPT !.pc = "keyed",
                              !.key = UploadKey(naming.conv, naming.now,
                                                naming.rand, naming.safeName)]
  /\ UNCHANGED <<bucketVars, toolVars, turn, messages, sent, steps, norm,
                 broadcasts>>

NextName == SanitizeName \/ BuildKey

SpecName == InitName /\ [][NextName]_vars

\* the tool calls of a turn and the schedules they create, which fire
NextSched ==
  \/ NextTool
  \/ \E by \in AgentClasses : \E s \in schedules : executeTask(by, s)

SpecSched == InitTool /\ [][NextSched]_vars

\* the turns of a conversation, with the tools that take no input
TurnTools == {"getUserTimezone", "getScheduledTasks"}

NextTurn ==
  \/ \E by \in AgentClasses : Send(by)
  \/ \E c \in CallIds, tool \in TurnTools : ToolInputStart(c, tool)
  \/ \E c \in CallIds : \E input \in InputsOf(calls[c].tool) :
       ToolInputAvailable(c, input)
  \/ \E c \in CallIds : ExecuteNow(c)
  \/ \E c \in CallIds : OnToolCall(c)
  \/ Stop
  \/ Finish

SpecTurn == Init /\ [][NextTurn]_vars

\* ------------------------------------------------------------------------
\* Properties of the normalizers
\* ------------------------------------------------------------------------

TaskKey(t) == KeyOf(tasks[t].kind, tasks[t].data)

\* the object at the key of closure t carries cached text of its kind
CachedFor(t) ==
  LET o == R2Get(TaskKey(t))
      n == IF tasks[t].kind = "image" THEN "description" ELSE "transcript"
  IN  /\ o.exists
      /\ n \in DOMAIN o.customMetadata
      /\ o.customMetadata[n] # ""

CachedTextFor(t) ==
  R2Get(TaskKey(t)).customMetadata[
    IF tasks[t].kind = "image" THEN "description" ELSE "transcript"]

\* C1 - Cache hit: when the get of a closure finds an object with non-empty
\* cached text of its kind, the closure returns that text at once, without
\* an adapter call and without a put; and a closure that has returned takes
\* no further step.
C1_CacheHit ==
  [][ \A t \in TaskIds :
        /\ (tasks[t].pc = "get" /\ tasks'[t].pc # "get" /\ CachedFor(t)) =>
             /\ tasks'[t].pc = "done"
             /\ tasks'[t].result = CachedTextFor(t)
             /\ tasks'[t].modelCalls = 0
             /\ tasks'[t].puts = 0
             /\ r2' = r2
        /\ tasks[t].pc = "done" => tasks'[t] = tasks[t] ]_vars

\* a closure returned cached text: it made its get, no adapter call and no
\* put, and its result is a text an adapter produced earlier
C1_Witness ==
  \E t \in TaskIds :
    /\ tasks[t].pc = "done"
    /\ tasks[t].gets = 1
    /\ tasks[t].modelCalls = 0
    /\ tasks[t].puts = 0
    /\ tasks[t].result \in {"cat", "dog", "[Could not transcribe]"}

\* the closures of run r that handle kind `kind` and resolve to key `key`
TasksOn(r, kind, key) ==
  { t \in TaskIds : /\ tasks[t].run = r
                    /\ tasks[t].kind = kind
                    /\ KeyOf(kind, tasks[t].data) = key }

\* C2 - Sequential idempotence: when two normalizer calls in sequence each
\* reference one key once, and the first call found the object there without
\* cached text, the adapter is invoked exactly once over both calls, whatever
\* text it returned.
C2_SequentialIdempotence ==
  \A kind \in {"image", "audio"}, key \in Keys :
    \A t1 \in TasksOn(1, kind, key), t2 \in TasksOn(2, kind, key) :
      ( /\ StartsWith(key, Prefix(tasks[t1].agent))
        /\ TasksOn(1, kind, key) = {t1}
        /\ TasksOn(2, kind, key) = {t2}
        /\ tasks[t1].pc = "done"
        /\ tasks[t2].pc = "done"
        /\ tasks[t1].modelCalls = 1 )
      => tasks[t1].modelCalls + tasks[t2].modelCalls = 1

\* C3 - Immutability of cached text: a metadata entry that is present at a
\* key is present with the same value after every step of the normalizers.
C3_CachedTextImmutable ==
  [][ \A k \in Keys, n \in MetaNames :
        (r2[k].exists /\ n \in DOMAIN r2[k].customMetadata) =>
          /\ r2'[k].exists
          /\ n \in DOMAIN r2'[k].customMetadata
          /\ r2'[k].customMetadata[n] = r2[k].customMetadata[n] ]_vars

\* C4 - Namespace isolation: every bucket call made while serving a
\* conversation is on a key under uploads/<conversation>/, and a closure
\* whose part resolves to a key outside that prefix makes no get and no put.
C4_NamespaceIsolation ==
  /\ \A c \in reqCalls : StartsWith(c.key, "uploads/" \o c.agent \o "/")
  /\ \A t \in TaskIds :
       (tasks[t].pc # "idle"
          /\ ~StartsWith(TaskKey(t), "uploads/" \o tasks[t].agent \o "/"))
       => (tasks[t].gets = 0 /\ tasks[t].puts = 0)

\* C22: the placeholder "[Could not transcribe]", which stands for an empty
\* text of the transcription adapter, is never stored as the transcript of
\* an object.
C22_FailedTranscriptNotCached ==
  \A k \in DOMAIN r2 :
    (r2[k].exists /\ "transcript" \in DOMAIN r2[k].customMetadata)
    => r2[k].customMetadata["transcript"] # "[Could not transcribe]"

\* a data value that is not a string made of files/ or /files/ and a
\* non-empty key
Unresolvable(d) ==
  ~ /\ d.isString
    /\ \/ StartsWith(d.val, "files/") /\ Len(d.val) > 6
       \/ StartsWith(d.val, "/files/") /\ Len(d.val) > 7

\* C23: the closure of a media part whose url resolves to no key has
\* returned "[Unknown image]" (or "[Unknown audio]"), emitted as
\* "[Attached image: [Unknown image]]" (or "[Voice message: [Unknown
\* audio]]"), and has made no get, no adapter call and no put.
C23_UnresolvableKey ==
  \A t \in TaskIds :
    (tasks[t].pc # "idle" /\ Unresolvable(tasks[t].data)) =>
      /\ tasks[t].pc = "done"
      /\ Synth(tasks[t].kind, tasks[t].result) =
           (IF tasks[t].kind = "image" THEN "[Attached image: [Unknown image]]"
            ELSE "[Voice message: [Unknown audio]]")
      /\ tasks[t].gets = 0
      /\ tasks[t].modelCalls = 0
      /\ tasks[t].puts = 0

\* an image part with a data: url and an audio part whose data is no string
\* were both answered with the sentinel
C23_Witness ==
  \E t, u \in TaskIds :
    /\ tasks[t].kind = "image" /\ tasks[t].data = Str("data:x")
    /\ tasks[t].result = "[Unknown image]"
    /\ tasks[u].kind = "audio" /\ tasks[u].data = NotAString
    /\ tasks[u].result = "[Unknown audio]"

C28_WriteBackFrame ==
  [][\A t \in TaskIds :
       (tasks[t].pc = "put" /\ tasks'[t].pc = "done"
          /\ R2Get(TaskKey(t)).exists)
       => LET old == R2Get(TaskKey(t))
              new == R2Get(TaskKey(t))'
          IN  /\ new.exists
              /\ new.body = old.body
              /\ new.contentType = old.contentType
              /\ \A n \in MetaNames \ {MetaField(tasks[t].kind)} :
                   /\ n \in DOMAIN new.customMetadata
                        <=> n \in DOMAIN old.customMetadata
                   /\ n \in DOMAIN old.customMetadata
                        => new.customMetadata[n] = old.customMetadata[n]]_vars


\* C5: a calculate call enters approval-requested if and only if
\* |a| > 1000 or |b| > 1000: a call whose input is available next waits for
\* approval, without execute having run, when the bound is exceeded, and
\* otherwise next has its output, from one run of execute, with no approval
\* requested and no decision taken; approval-requested is entered from
\* input-available only.
C5_ApprovalGate ==
  [][\A c \in CallIds :
       /\ (calls[c].tool = "calculate" /\ calls[c].state = "input-available"
             /\ calls'[c] # calls[c])
          => IF Abs(calls[c].input.a) > 1000 \/ Abs(calls[c].input.b) > 1000
             THEN /\ calls'[c].state = "approval-requested"
                  /\ calls'[c].execs = 0
             ELSE /\ calls'[c].state = "output-available"
                  /\ calls'[c].execs = 1
                  /\ calls'[c].decided = "none"
                  /\ calls'[c].approvalId = ""
       /\ (calls'[c].state = "approval-requested"
             /\ calls[c].state # "approval-requested")
          => calls[c].state = "input-available"]_vars

\* a = 1000 and b = -1000: executed at once, no approval and no decision
C5_Witness ==
  \E c \in CallIds :
    /\ calls[c].tool = "calculate"
    /\ calls[c].state = "output-available"
    /\ calls[c].input.a = 1000
    /\ calls[c].input.b = -1000
    /\ calls[c].decided = "none"
    /\ calls[c].approvalId = ""

\* C6: a call that waits for approval changes only by a decision: an
\* approving one runs execute exactly once and the call has its output (for
\* 5000 + 3 the output {expression: "5000 + 3", result: 5003}), a rejecting
\* one denies the call, with execute not run and no output; a call that
\* asked for approval has run execute only if an approving decision arrived,
\* and at most once.
C6_ApprovalDecision ==
  [][\A c \in CallIds :
       /\ (calls[c].state = "approval-requested" /\ calls'[c] # calls[c])
          => \/ /\ calls'[c].decided = "approved"
                /\ calls'[c].state = "output-available"
                /\ calls[c].execs = 0
                /\ calls'[c].execs = 1
                /\ calls'[c].output # NoOutput
                /\ (calls[c].input = [a |-> 5000, b |-> 3, operator |-> "+"]
                      => calls'[c].output =
                           [expression |-> "5000 + 3",
                            result |-> [kind |-> "finite", num |-> 5003,
                                        den |-> 1]])
             \/ /\ calls'[c].decided = "rejected"
                /\ calls'[c].state = "output-denied"
                /\ calls'[c].execs = 0
                /\ calls'[c].output = NoOutput
       /\ (calls'[c].approvalId # "" /\ calls'[c].decided # "approved")
          => calls'[c].execs = 0
       /\ calls'[c].execs <= 1]_vars

\* 5000 + 3 was approved and has its output
C6_Witness ==
  \E c \in CallIds :
    /\ calls[c].input = [a |-> 5000, b |-> 3, operator |-> "+"]
    /\ calls[c].decided = "approved"
    /\ calls[c].state = "output-available"
    /\ calls[c].execs = 1

\* the steps of the state machine of a toolCall part
Forward ==
  { <<"none", "input-streaming">>,
    <<"input-streaming", "input-available">>,
    <<"input-available", "output-available">>,
    <<"input-available", "approval-requested">>,
    <<"approval-requested", "output-available">>,
    <<"approval-requested", "output-denied">> }

\* C7: the state of a toolCall part changes only along the state machine:
\* input-streaming, input-available, then output-available, or
\* approval-requested followed by output-available or output-denied; it
\* never goes back and never leaves output-available or output-denied.
C7_Monotonic ==
  [][\A c \in CallIds :
       calls'[c].state # calls[c].state
       => <<calls[c].state, calls'[c].state>> \in Forward]_vars

\* a call went all the way to output-denied
C7_Witness ==
  \E c \in CallIds :
    /\ calls[c].state = "output-denied"
    /\ calls[c].decided = "rejected"

\* C9: calculate.execute with b = 0 and operator "/" or "%" returns an error
\* payload that carries no result; on every other input it returns the
\* expression and the result of the operator table.
C9_ZeroDivisor ==
  \A c \in CallIds :
    (calls[c].tool = "calculate" /\ calls[c].state = "output-available")
    => IF calls[c].input.b = 0 /\ calls[c].input.operator \in {"/", "%"}
       THEN /\ "error" \in DOMAIN calls[c].output
            /\ "result" \notin DOMAIN calls[c].output
       ELSE calls[c].output =
              [expression |-> ToString(calls[c].input.a) \o " "
                                \o calls[c].input.operator \o " "
                                \o ToString(calls[c].input.b),
               result |-> ops(calls[c].input.operator, calls[c].input.a,
                              calls[c].input.b)]

\* C10: the message list handed to the text model holds no toolCall part
\* that a turn before left in input-streaming or input-available.
C10_CleanupBeforeReplay ==
  \A i \in 1..Len(sent.messages) : \A c \in CallIds :
    ~Unterminated(sent.messages[i].toolCalls[c])


\* the wrapper of the handled kind around the text d
Wrapped(kind, d) ==
  IF kind = "image" THEN "[Attached image: " \o d \o "]"
  ELSE "[Voice message: " \o d \o "]"

\* C27: the message a normalizer returns. For a user message whose content is
\* an array with k media parts of the handled kind: the other parts in their
\* order, then k text parts, the i-th of which wraps the text the closure of
\* the i-th media part returned (the unknown sentinel when the data of that
\* part resolves to no key), and no part of the handled kind; in whatever
\* order the closures ran. Any other message is returned as it is, and no
\* closure has started and the bucket is as it was.
C27_Shape ==
  (norm.called /\ norm.returned) =>
    LET msg == norm.msg
        out == norm.out
        kind == norm.kind
        media == SelectSeq(msg.content, LAMBDA p : IsHandled(kind, p))
        rest == SelectSeq(msg.content, LAMBDA p : ~IsHandled(kind, p))
        k == Len(media)
    IN  IF msg.role # "user" \/ msg.isString \/ k = 0
        THEN /\ out = msg
             /\ \A t \in TaskIds : tasks[t].pc = "idle"
             /\ r2 = ShapeBucket
        ELSE /\ out.role = msg.role
             /\ ~out.isString
             /\ Len(out.content) = Len(rest) + k
             /\ SubSeq(out.content, 1, Len(rest)) = rest
             /\ \A i \in 1..Len(out.content) : ~IsHandled(kind, out.content[i])
             /\ \A i \in 1..k :
                  LET tk == tasks[norm.first + i]
                      part == out.content[Len(rest) + i]
                  IN  /\ tk.pc = "done"
                      /\ tk.data = media[i].data
                      /\ part.type = "text"
                      /\ part.text = Wrapped(kind, tk.result)
                      /\ (KeyOf(kind, media[i].data) = "")
                           => (part.text = Wrapped(kind, UnknownText(kind)))

\* a message with an image whose closure called the model, then a text, then
\* an image without a key has been normalized: the closure of the second
\* image returned first
C27_Witness ==
  /\ norm.called /\ norm.returned
  /\ norm.kind = "image"
  /\ Len(norm.msg.content) = 3
  /\ IsHandled("image", norm.msg.content[1])
  /\ norm.msg.content[2] = TextPart("hi")
  /\ KeyOf("image", norm.msg.content[3].data) = ""
  /\ IsHandled("image", norm.msg.content[3])
  /\ tasks[1].puts = 1
  /\ norm.out.content = << TextPart("hi"),
                           TextPart("[Attached image: cat]"),
                           TextPart("[Attached image: [Unknown image]]") >>

\* C25: when a schedule fires, executeTask broadcasts an event of type
\* scheduled-task with the description of the task and leaves the message
\* list of the conversation, and with it the turn, as they are.
C25_TaskLeavesHistory ==
  [][\A by \in AgentClasses : \A s \in schedules :
       executeTask(by, s)
       => /\ messages' = messages
          /\ turn' = turn
          /\ [type |-> "scheduled-task", description |-> s.description]
               \in broadcasts']_vars

\* C21: in the message list handed to the text model every message before
\* the last two carries no tool call.
C21_Pruning ==
  \A i \in 1..Len(sent.messages) :
    i <= Len(sent.messages) - 2 => sent.messages[i].toolCalls = NoParts

\* ------------------------------------------------------------------------
\* Properties of the turn's pre-processing
\* ------------------------------------------------------------------------

\* the step limit of the agent class that runs the turn
LimitOf(by) == IF by = "Chat" THEN 10 ELSE 5

\* C11: a turn runs at most 5 model steps in ChatAgent and at most 10 in
\* Chat, also when every step ends with tool calls; at the limit no further
\* step can run and the turn can finish.
C11_StepBound ==
  /\ steps.count <= LimitOf(sent.by)
  /\ (turn = "streaming" /\ steps.count = LimitOf(sent.by))
       => /\ \A toolCalls \in BOOLEAN : ~ENABLED ModelStep(toolCalls)
          /\ ENABLED Finish

\* a turn of ChatAgent has finished after five steps of which the last one
\* still ended with tool calls
C11_Witness ==
  /\ sent.by = "ChatAgent"
  /\ turn = "ready"
  /\ steps = [count |-> 5, toolCalls |-> TRUE]

\* C12: every step that ends a started turn is the step that invokes
\* onFinish, so that no turn ends without its onFinish call and none has two.
C12_Finalization ==
  [][(turn \in {"normalizing", "streaming"} /\ turn' \notin {"normalizing", "streaming"})
       => Finish]_vars

\* C24: when the get of a closure returns no object, the closure returns
\* "[Image not found]" (or "[Audio not found]") with no adapter call and no
\* put, the bucket is unchanged, and the other closures and the turn go on
\* as they were.
C24_MissingObject ==
  [][\A t \in TaskIds :
       (tasks[t].pc = "get" /\ tasks'[t].pc \notin {"get", "rejected"}
          /\ ~R2Get(TaskKey(t)).exists)
       => /\ tasks'[t].pc = "done"
          /\ tasks'[t].result = (IF tasks[t].kind = "image"
                                 THEN "[Image not found]"
                                 ELSE "[Audio not found]")
          /\ tasks'[t].modelCalls = 0
          /\ tasks'[t].puts = 0
          /\ r2' = r2
          /\ \A u \in TaskIds \ {t} : tasks'[u] = tasks[u]
          /\ turn' = turn]_vars

\* streamText was called in a turn in which one image was missing and
\* another was described by the vision model
C24_Witness ==
  /\ turn = "streaming"
  /\ \E t, u \in TaskIds :
       /\ tasks[t].result = "[Image not found]"
       /\ tasks[t].gets = 1 /\ tasks[t].modelCalls = 0 /\ tasks[t].puts = 0
       /\ tasks[u].run = tasks[t].run
       /\ tasks[u].modelCalls = 1 /\ tasks[u].puts = 1
       /\ tasks[u].result = "cat"

\* C14: a failed adapter call, or a failed get or put around it, never fails
\* the turn: onChatMessage does not reject because of it.
C14_FailuresDegrade == turn # "failed"

\* C30: where there is no object at a key - delete-files is the one step
\* that removes one - only the put of an upload that built this key makes an
\* object exist there; no step of a closure does.
C30_DeleteIsFinal ==
  [][\A k \in Keys :
       (~R2Get(k).exists /\ R2Get(k)'.exists)
       => \E c \in reqCalls' : c.op = "put" /\ c.key = k]_vars

\* the number of "/" in s
Slashes(s) == Cardinality({i \in 1..Len(s) : CharAt(s, i) = "/"})

\* C26: whatever the file name, the sanitized name has at most 200 characters,
\* all of them of [A-Za-z0-9._-], and no two dots in a row; the key built from
\* it is uploads/<conversation>/<millis>-<8 characters>/<sanitized name>, with
\* the three separators of the template and none from the file name.
C26_SanitizedKey ==
  /\ naming.pc \in {"named", "keyed"}
     => /\ Len(naming.safeName) <= 200
        /\ \A i \in 1..Len(naming.safeName) :
             /\ CharAt(naming.safeName, i) \in SafeChars
             /\ i > 1 => ~(/\ CharAt(naming.safeName, i - 1) = "."
                           /\ CharAt(naming.safeName, i) = ".")
  /\ naming.pc = "keyed"
     => /\ Len(naming.rand) = 8
        /\ naming.key = "uploads/" \o naming.conv \o "/" \o naming.now \o "-"
                          \o naming.rand \o "/" \o naming.safeName
        /\ Slashes(naming.key) = 3
        /\ LastSegment(naming.key) = naming.safeName

\* a key has been built for a file name that is longer than the limit and
\* holds a path separator and two dots in a row
C26_Witness ==
  /\ naming.pc = "keyed"
  /\ Len(naming.name) > 200
  /\ \E i \in 1..Len(naming.name) : CharAt(naming.name, i) = "/"
  /\ \E i \in 2..Len(naming.name) :
       CharAt(naming.name, i - 1) = "." /\ CharAt(naming.name, i) = "."
  /\ Len(naming.safeName) = 200

\* ------------------------------------------------------------------------
\* Properties of the file routes
\* ------------------------------------------------------------------------

\* C15: an upload of more than 10 MiB is answered 413 with no put and the
\* bucket unchanged; a file of exactly 10 MiB (or less) is answered 200 and
\* stored, with its body and content type, under the returned key; a request
\* with no file is answered 400 with no put.
C15_UploadSizeBoundary ==
  [][\A name \in Served, file \in UploadFiles, now \in Millis, rand \in Rand8 :
       Upload(name, file, now, rand) =>
         IF ~file.present
         THEN resp'.status = 400 /\ reqCalls' = {} /\ r2' = r2
         ELSE IF file.size > 10485760
         THEN resp'.status = 413 /\ reqCalls' = {} /\ r2' = r2
         ELSE /\ resp'.status = 200
              /\ resp'.url = "files/" \o resp'.key
              /\ resp'.key \in DOMAIN r2'
              /\ r2'[resp'.key] = [exists |-> TRUE, body |-> file.body,
                                   contentType |-> file.type,
                                   customMetadata |-> NoMeta]
              /\ reqCalls' = {[agent |-> name, op |-> "put",
                               key |-> resp'.key]}]_vars

\* the upload of limit + 1 bytes was refused and the conversation has no
\* object
C15_Witness ==
  /\ resp.status = 413
  /\ reqCalls = {}
  /\ \A k \in Keys : StartsWith(k, "uploads/c1/") => ~R2Get(k).exists

\* the types that are served inline
InlineTypes ==
  { "image/png", "image/jpeg", "image/gif", "image/webp", "image/svg+xml",
    "audio/webm", "audio/mp4", "audio/ogg", "audio/mpeg", "application/pdf" }

\* C16: a GET of files/<key> that finds the object answers with the body
\* and the content type of an upload that built the key, whatever the
\* content type; and once an object is stored no step, write-backs
\* included, removes it or changes its body or its content type, so that
\* the GET answers with what the upload of that url sent.
C16_RoundTrip ==
  [][/\ \A name \in Served, key \in Keys :
          (Serve(name, key) /\ resp'.status = 200) =>
            \E file \in UploadFiles, now \in Millis, rand \in Rand8 :
              /\ file.present
              /\ file.size <= 10485760
              /\ key = UploadKey(name, now, rand, sanitizeFilename(file.name))
              /\ resp'.body = file.body
              /\ resp'.contentType = file.type
     /\ \A k \in DOMAIN r2 :
          r2[k].exists =>
            /\ k \in DOMAIN r2'
            /\ r2'[k].exists
            /\ r2'[k].body = r2[k].body
            /\ r2'[k].contentType = r2[k].contentType]_vars

\* C17: an accepted upload is stored under a key that holds no object of an
\* earlier upload.
C17_KeyUniqueness ==
  [][\A name \in Served, file \in UploadFiles, now \in Millis, rand \in Rand8 :
       (Upload(name, file, now, rand) /\ resp'.status = 200)
       => ~R2Get(resp'.key).exists]_vars

\* C18: delete-files deletes exactly the requested keys that are strings
\* beginning with uploads/<c>/, reports their number, leaves every other
\* object as it is, and calls the store for those keys only (not at all
\* when there is none); a body whose keys is not an array is answered 400
\* with no delete.
C18_ScopedDelete ==
  [][\A name \in Served, keys \in DeleteInputs :
       DeleteFiles(name, keys) =>
         IF ~keys.isArray
         THEN resp'.status = 400 /\ reqCalls' = {} /\ r2' = r2
         ELSE LET inScope == { i \in 1..Len(keys.items) :
                                 /\ keys.items[i].isString
                                 /\ StartsWith(keys.items[i].val,
                                               "uploads/" \o name \o "/") }
                  gone == { keys.items[i].val : i \in inScope }
              IN  /\ resp'.status = 200
                  /\ resp'.error = ""
                  /\ resp'.deleted = Cardinality(inScope)
                  /\ DOMAIN r2' = DOMAIN r2
                  /\ \A k \in DOMAIN r2 :
                       r2'[k] = IF k \in gone THEN NotFound ELSE r2[k]
                  /\ { c.key : c \in reqCalls' } = gone
                  /\ \A c \in reqCalls' : c.op = "delete"]_vars

\* one key of the conversation was deleted and the object of the other
\* conversation is still there
C18_Witness ==
  /\ resp.status = 200
  /\ resp.deleted = 1
  /\ \E c \in reqCalls : c.op = "delete" /\ ~R2Get(c.key).exists
  /\ \E k \in Keys : StartsWith(k, "uploads/c2/") /\ R2Get(k).exists

\* C19: a GET of files/<key> or files-meta/<key> whose key does not begin
\* with uploads/<c>/ is answered 403 Forbidden, the same response whatever
\* the bucket holds, and no store call is made.
C19_NoExistenceLeak ==
  [][\A name \in Served, key \in Keys :
       ((Serve(name, key) \/ FilesMeta(name, key))
          /\ ~StartsWith(key, "uploads/" \o name \o "/"))
       => /\ resp' = [EmptyResp EXCEPT !.status = 403, !.body = "Forbidden"]
          /\ reqCalls' = {}
          /\ r2' = r2]_vars

\* 403 was answered while the other conversation has an object
C19_Witness ==
  /\ resp.status = 403
  /\ reqCalls = {}
  /\ \E k \in Keys : ~StartsWith(k, "uploads/c1/") /\ R2Get(k).exists

\* C20: a served object has its stored Content-Type only when that type is
\* one of the ten inline types; for every other stored type, a missing one
\* included, the response has Content-Type application/octet-stream and a
\* Content-Disposition attachment header naming the file; every served
\* object comes with X-Content-Type-Options: nosniff.
C20_InlineAllowList ==
  [][\A name \in Served, key \in Keys :
       (Serve(name, key) /\ resp'.status = 200) =>
         /\ resp'.nosniff
         /\ IF R2Get(key).contentType \in InlineTypes
            THEN /\ resp'.contentType = R2Get(key).contentType
                 /\ resp'.disposition = ""
            ELSE /\ resp'.contentType = "application/octet-stream"
                 /\ StartsWith(resp'.disposition, "attachment; filename=\"")]_vars

\* the HTML upload was served as an attachment under its sanitized name
C20_Witness ==
  /\ resp.status = 200
  /\ resp.body = "bh"
  /\ resp.contentType = "application/octet-stream"
  /\ resp.disposition = "attachment; filename=\"x_y.html\""
  /\ resp.nosniff

====
